---- MODULE Spec2Model ----
(***************************************************************************)
(* A model of tennis_ball_tracker: the transport sessions of session.py    *)
(* (six zmq socket patterns behind start/stop/send/receive), the msgpack    *)
(* wire codec they share, and the command server of server.py with a       *)
(* requester on its control channel.                                        *)
(*                                                                         *)
(* Spec        drives the session objects directly, as tests/test_session   *)
(*             does: one bound/connecting pair at a time.                   *)
(* ServerSpec  runs server.connect / run / run_camera_feed / disconnect     *)
(*             against a requester on the control port.                     *)
(* ServerFair  is ServerSpec with the fairness of preemptively scheduled    *)
(*             threads; ServerLive schedules the disconnecting thread too. *)
(* ServerFaultSpec adds a transport whose send may raise and requesters    *)
(*             that send malformed frames.                                  *)
(* ClientSpec  drives the client facade of client.py against a reply and   *)
(*             a push session.                                              *)
(* ValueSpec   applies the message classes of messages.py, the codec and   *)
(*             the handler table to chosen arguments.                       *)
(***************************************************************************)
EXTENDS Integers, Sequences, FiniteSets, TLC

\* ------------------------------------------------------------------ bounds
MaxStarts == 2      \* sockets one session object may create
MaxFrames == 4      \* frames put on the wire in one behaviour
MaxQueue  == 2      \* frames queued in one direction of one endpoint

\* ---------------------------------------------------------- python values
\* A python value is [ty, v]: its type and its content.
PyNone == [ty |-> "none", v |-> <<>>]

PyDict(d) == [ty |-> "dict", v |-> d]

\* A str, as the sequence of its characters.
PyStr(chars) == [ty |-> "str", v |-> chars]

\* The mappings tests/test_session.py sends: the message pushed and
\* requested, and the response.
MSG_SENT     == PyDict([message |-> "Testing the connection"])
REQ_RESPONSE == PyDict([message |-> "Received the message"])

\* The topic test_pub_sub publishes under and subscribes to.
TOPIC == <<"t", "e", "s", "t">>

\* ------------------------------------------------------------- wire codec
\* A buffer is a sequence of items; an item is one msgpack object
\* [fmt, val], a truncated object [fmt |-> "trunc"] or a byte that starts
\* no msgpack object [fmt |-> "invalid"].
TruncItem   == [fmt |-> "trunc", val |-> <<>>]
InvalidItem == [fmt |-> "invalid", val |-> <<>>]

\* msgpack.packb: tuples and lists both become arrays.
packb(o) ==
  [fmt |-> CASE o.ty = "dict" -> "map"
             [] o.ty \in {"list", "tuple"} -> "array"
             [] o.ty = "str" -> "str"
             [] OTHER -> "nil",
   val |-> o.v]

\* The bytes a packed str starts with: msgpack's header byte for a short
\* string, then its characters.
raw(item) == <<"fixstr">> \o item.val

\* What msgpack.Unpacker yields for one complete object.
unpack(item) ==
  [ty |-> CASE item.fmt = "map" -> "dict"
            [] item.fmt = "array" -> "list"
            [] item.fmt = "str" -> "str"
            [] OTHER -> "none",
   v |-> item.val]

serialize(request) == <<packb(request)>>

\* Iterating the Unpacker stops at the first incomplete object (OutOfData
\* ends the iteration): the objects before it.
RECURSIVE Complete(_)
Complete(sbuf) ==
  IF sbuf = <<>> \/ Head(sbuf).fmt = "trunc" THEN <<>>
  ELSE <<Head(sbuf)>> \o Complete(Tail(sbuf))

\* The list comprehension unpacks every complete object before msgs[0] is
\* taken: an invalid byte anywhere among them raises.
deserialize_raises(sbuf) ==
  \E i \in 1..Len(Complete(sbuf)) : Complete(sbuf)[i].fmt = "invalid"

deserialize_offbyone(sbuf) ==
  LET msgs == Complete(sbuf)
  IN  IF Len(msgs) > 1 THEN unpack(msgs[1]) ELSE PyNone

deserialize(sbuf) ==
  LET msgs == Complete(sbuf)
  IN  IF Len(msgs) > 0 THEN unpack(msgs[1]) ELSE PyNone

\* --------------------------------------------------------------- sessions
Sessions == {"rep", "req", "push", "pull", "pub", "sub"}

\* The port each session object is constructed with: the two ends of a
\* pattern share one.
Ports == {"ctrl", "feed", "topic"}

port(s) ==
  CASE s \in {"rep", "req"}   -> "ctrl"
    [] s \in {"push", "pull"} -> "feed"
    [] OTHER                  -> "topic"

SESSION_TYPE(s) ==
  CASE s = "rep"  -> "REP"
    [] s = "req"  -> "REQ"
    [] s = "push" -> "PUSH"
    [] s = "pull" -> "PULL"
    [] s = "pub"  -> "PUB"
    [] OTHER      -> "SUB"

\* start() binds for reply, push and publish and connects for the rest.
Binds(s) == s \in {"rep", "push", "pub"}

\* The addresses start() is called with: one the transport accepts and one
\* it rejects (bind and connect raise ZMQError on it).
LOCAL_IP_ADDRESS == "127.0.0.1"
BadAddress       == "not an address"
Addresses        == {LOCAL_IP_ADDRESS, BadAddress}

VARIABLES
  focus,         \* Spec: the port whose pair of sessions is driven; "server" under ServerSpec, "client" under ClientSpec
  socket,        \* socket[s]: session_t.socket, 0 for None, else the n-th socket s created
  created,       \* created[s]: sockets s has created so far
  closes,        \* closes[s][n]: times socket n of s was closed
  attached,      \* attached[s]: the held socket's bind/connect succeeded
  fsm,           \* fsm[s]: REQ/REP lock-step state of the held socket
  peer,          \* peer[s]: the requester socket the held REP socket must answer
  chan,          \* chan[p]: frames in flight, fwd to the bound end, back to the connecting end
  portTaken,     \* ports another process has bound
  ret,           \* the last session call: who, what, how it ended
  lastEffective, \* lastEffective[s]: the last lifecycle call that changed s's handle
  wire,          \* wire[p][i]: the session that made the i-th send on port p
  taken          \* taken[s]: the send each frame s's receive took off the queue came from

sessionVars == <<socket, created, closes, attached, fsm, peer, chan, portTaken,
                 ret, lastEffective, wire, taken>>

VARIABLES
  srv_is_connected, \* server.is_connected
  send_camera_feed, \* server.send_camera_feed
  camera,           \* server.camera: "none", "open" (a CameraFeed), "deleted" (no attribute)
  main,             \* the thread calling server.connect / disconnect: "idle" between calls, "join" inside disconnect
  main_err,         \* what its last call raised, "" for a normal return
  ctrl,             \* the control worker: "new", in run at "loop" / "dispatch" / "capture", "finished", "crashed"
  feed,             \* the feed worker: "new", in run_camera_feed at "loop" / "capture" / "send", "finished", "crashed"
  reply             \* run's local: the request being handled, or the one run ended on

serverVars == <<srv_is_connected, send_camera_feed, camera, main, main_err,
                ctrl, feed, reply>>

VARIABLES
  cli_is_connected, \* client.is_connected
  cli,              \* the client method in progress: "" for none, else the command method waiting in send_receive
  cli_out           \* the last client method that ended: which, how, and the response it decoded

clientVars == <<cli_is_connected, cli, cli_out>>

VARIABLE
  trial             \* ValueSpec: a function of messages.py or the codec, its argument and, once applied, its result

vars == <<focus, sessionVars, serverVars, clientVars, trial>>

\* The other end of a session's pattern.
Other(s) ==
  CASE s = "rep"  -> "req"
    [] s = "req"  -> "rep"
    [] s = "push" -> "pull"
    [] s = "pull" -> "push"
    [] s = "pub"  -> "sub"
    [] OTHER      -> "pub"

\* REQ and REP sockets alternate send and recv; the others do not.
LockStep(s) == SESSION_TYPE(s) \in {"REQ", "REP"}

\* The state a fresh socket of s starts in: a requester sends first, a
\* replier receives first.
FirstTurn(s) == IF s = "req" THEN "send" ELSE "recv"

\* The direction frames travel to reach s.
Toward(s) == IF Binds(s) THEN "fwd" ELSE "back"

\* A session call as its caller sees it: whether the session held a socket
\* when it was made, what it returned or raised and, for a receive that
\* took a frame, which send the frame came from and the value that send
\* was given.
Outcome(s, op, block, kind, val, err, fid, was) ==
  [s |-> s, op |-> op, block |-> block, kind |-> kind, val |-> val,
   err |-> err, fid |-> fid, was |-> was,
   held |-> IF s \in DOMAIN socket THEN socket[s] # 0 ELSE FALSE]

Returned(s, op, block, val, fid) ==
  Outcome(s, op, block, "return", val, "", fid, PyNone)

Raised(s, op, block, err, fid) ==
  Outcome(s, op, block, "raise", PyNone, err, fid, PyNone)

NoCall == Returned("", "", FALSE, PyNone, 0)

\* The sessions, their sockets and the frames between them, as one value.
Now ==
  [socket |-> socket, created |-> created, closes |-> closes,
   attached |-> attached, fsm |-> fsm, peer |-> peer, chan |-> chan,
   lastEffective |-> lastEffective, wire |-> wire, taken |-> taken]

\* A session method is a value [ok, out, st]: whether the call comes back
\* (a blocked call has not), how it ends, and the state it leaves.
Ends(out, st) == [ok |-> TRUE, out |-> out, st |-> st]
Blocks        == [ok |-> FALSE, out |-> NoCall, st |-> Now]

\* session_t.is_connected: bool(self.socket).
is_connected(s) == socket[s] # 0

\* ---------------------------------------------------------------- start
\* socket.bind / socket.connect of the socket start() has just created:
\* ZMQError on an address the transport rejects, and on a bind to a port
\* another process holds.
EndpointOk(s, ip_address) ==
  /\ ip_address = LOCAL_IP_ADDRESS
  /\ Binds(s) => port(s) \notin portTaken

StartOutcome(s, ip_address) ==
  IF EndpointOk(s, ip_address)
  THEN Returned(s, "start", FALSE, PyNone, 0)
  ELSE Raised(s, "start", FALSE, "ZMQError", 0)

\* The socket start() creates, held in self.socket, bound or connected.
NewSocket(s, ip_address) ==
  IF created[s] >= MaxStarts THEN Blocks
  ELSE Ends(StartOutcome(s, ip_address),
            [Now EXCEPT !.created[s] = @ + 1,
                        !.socket[s] = created[s] + 1,
                        !.closes[s] = Append(@, 0),
                        !.fsm[s] = FirstTurn(s),
                        !.peer[s] = 0,
                        !.attached[s] = EndpointOk(s, ip_address),
                        !.lastEffective[s] = "start"])

\* start() without the is_connected test.
start_unguarded(s, ip_address) == NewSocket(s, ip_address)

\* start() keeping the new socket in a local instead of self.socket.
start_local(s, ip_address) ==
  IF is_connected(s) THEN Ends(Returned(s, "start", FALSE, PyNone, 0), Now)
  ELSE IF created[s] >= MaxStarts THEN Blocks
  ELSE Ends(StartOutcome(s, ip_address),
            [Now EXCEPT !.created[s] = @ + 1,
                        !.closes[s] = Append(@, 0),
                        !.lastEffective[s] = "start"])

\* zmq_session_t.start and its overrides in the publish, push and reply
\* sessions (which bind instead of connecting): a new context and socket
\* when no socket is held, assigned to self.socket before bind/connect is
\* called on it, so the handle stays when bind/connect raises.
start(s, ip_address) ==
  IF is_connected(s) THEN Ends(Returned(s, "start", FALSE, PyNone, 0), Now)
  ELSE NewSocket(s, ip_address)

\* ----------------------------------------------------------------- stop
\* socket.close() of the held socket: the frames queued for it go with it.
CloseHeld(s) ==
  IF is_connected(s)
  THEN [Now EXCEPT !.closes[s][socket[s]] = @ + 1,
                   !.chan[port(s)][Toward(s)] = <<>>,
                   !.lastEffective[s] = "stop"]
  ELSE Now

\* stop() that closes the socket and keeps the handle.
stop_keep(s) == Ends(Returned(s, "stop", FALSE, PyNone, 0), CloseHeld(s))

\* zmq_session_t.stop: close the held socket, then drop the handle either
\* way.
stop(s) ==
  Ends(Returned(s, "stop", FALSE, PyNone, 0),
       [CloseHeld(s) EXCEPT !.socket[s] = 0, !.attached[s] = FALSE])

\* ------------------------------------------------------- send and receive
\* The frame of the next send on s's port: the bytes, the socket they come
\* from and, to tell frames apart, the number of the send and the value it
\* was given.
Frame(s, request, sbuf) ==
  [id |-> Len(wire[port(s)]) + 1, from |-> socket[s], val |-> request,
   body |-> sbuf]

\* Whether a frame s sends now has a pipe to wait in: a connecting socket
\* has its pipe from connect() on; a bound socket has one per connected
\* peer.
HasPipe(s) ==
  /\ attached[s]
  /\ Binds(s) => is_connected(Other(s)) /\ attached[Other(s)]

\* A REP socket answers the requester it received from: the answer is
\* dropped when that requester's socket is gone.
Routed(s) == SESSION_TYPE(s) = "REP" => peer[s] = socket[Other(s)]

\* socket.send(sbuf), blocking, on the socket s holds: it blocks while no
\* pipe can take the frame.
SocketSend(s, request, sbuf) ==
  LET to == Toward(Other(s))
  IN
  IF ~is_connected(s)
  THEN Ends(Raised(s, "send", FALSE, "AttributeError", 0), Now)
  ELSE IF LockStep(s) /\ fsm[s] # "send"
  THEN Ends(Raised(s, "send", FALSE, "ZMQError(EFSM)", 0), Now)
  ELSE IF ~(HasPipe(s) \/ SESSION_TYPE(s) = "REP")
          \/ Len(chan[port(s)][to]) >= MaxQueue
  THEN Blocks
  ELSE Ends(Returned(s, "send", FALSE, PyNone, Len(wire[port(s)]) + 1),
            [Now EXCEPT !.wire[port(s)] = Append(@, s),
                        !.chan[port(s)][to] =
                           IF Routed(s) /\ HasPipe(s)
                           THEN Append(@, Frame(s, request, sbuf))
                           ELSE @,
                        !.fsm[s] = IF LockStep(s) THEN "recv" ELSE @])

\* socket.recv(flags) on the socket s holds, then deserialize(sbuf). With
\* zmq.NOBLOCK and nothing queued recv raises zmq.Again; without it recv
\* blocks. The frame is off the queue, and the lock-step has moved on,
\* before deserialize can raise. A socket whose bind or connect failed has
\* no pipe to read from.
SocketRecv(s, block) ==
  LET q == IF attached[s] THEN chan[port(s)][Toward(s)] ELSE <<>>
      f == Head(q)
  IN
  IF ~is_connected(s)
  THEN Ends(Raised(s, "receive", block, "AttributeError", 0), Now)
  ELSE IF LockStep(s) /\ fsm[s] # "recv"
  THEN Ends(Raised(s, "receive", block, "ZMQError(EFSM)", 0), Now)
  ELSE IF q = <<>>
  THEN IF block THEN Blocks
       ELSE Ends(Raised(s, "receive", block, "zmq.Again", 0), Now)
  ELSE Ends([(IF deserialize_raises(f.body)
              THEN Raised(s, "receive", block, "UnpackException", f.id)
              ELSE Returned(s, "receive", block, deserialize(f.body), f.id))
               EXCEPT !.was = f.val],
            [Now EXCEPT !.chan[port(s)][Toward(s)] = Tail(q),
                        !.fsm[s] = IF LockStep(s) THEN "send" ELSE @,
                        !.peer[s] = IF s = "rep" THEN f.from ELSE @,
                        !.taken[s] = Append(@, f.id)])

\* An operation the pattern does not implement.
Unsupported(s, op) ==
  Ends(Raised(s, op, FALSE, "NotImplementedError", 0), Now)

\* push.send putting the frame on the socket twice.
zmq_push_session_t_send_twice(request) ==
  LET one == SocketSend("push", request, serialize(request))
  IN  IF one.ok /\ one.out.kind = "return"
      THEN [one EXCEPT !.st.chan["feed"]["back"] =
                         Append(@, Frame("push", request, serialize(request)))]
      ELSE one

zmq_push_session_t_send(request) ==
  SocketSend("push", request, serialize(request))

\* The topics the subscription session is constructed with; start()
\* subscribes the socket to bytes(topic) of each.
Topics == {TOPIC}

IsPrefix(a, b) == Len(a) <= Len(b) /\ SubSeq(b, 1, Len(a)) = a

\* A SUB socket takes a message whose first frame starts with one of its
\* subscriptions.
Subscribed(first) == \E t \in Topics : IsPrefix(t, raw(first[1]))

\* publish.send: serialize(topic) with SNDMORE, then serialize(request). A
\* PUB socket never blocks: a message no subscriber takes is dropped.
zmq_publish_session_t_send(request, topic) ==
  IF ~is_connected("pub")
  THEN Ends(Raised("pub", "send", FALSE, "AttributeError", 0), Now)
  ELSE Ends(Returned("pub", "send", FALSE, PyNone, Len(wire["topic"]) + 1),
            [Now EXCEPT !.wire["topic"] = Append(@, "pub"),
                        !.chan["topic"]["back"] =
                           IF /\ HasPipe("pub")
                              /\ Subscribed(serialize(PyStr(topic)))
                              /\ Len(@) < MaxQueue
                           THEN Append(@, Frame("pub", request, serialize(request)))
                           ELSE @])

\* subscription.receive: recv() of the topic frame and of the message
\* frame, both blocking, then deserialize of the second.
zmq_subscription_session_t_receive == SocketRecv("sub", TRUE)

zmq_pull_session_t_receive(block) == SocketRecv("pull", block)

\* pull.send going through to the socket.
zmq_pull_session_t_send_through(request) ==
  IF is_connected("pull")
  THEN Ends(Returned("pull", "send", FALSE, PyNone, Len(wire["feed"]) + 1),
            [Now EXCEPT !.wire["feed"] = Append(@, "pull")])
  ELSE Ends(Raised("pull", "send", FALSE, "AttributeError", 0), Now)

\* The methods that only raise NotImplementedError.
zmq_pull_session_t_send(request) == Unsupported("pull", "send")

zmq_subscription_session_t_send(request) == Unsupported("sub", "send")

zmq_push_session_t_receive == Unsupported("push", "receive")

zmq_publish_session_t_receive == Unsupported("pub", "receive")

zmq_push_session_t_send_receive(request) == Unsupported("push", "send_receive")

zmq_pull_session_t_send_receive(request) == Unsupported("pull", "send_receive")

zmq_publish_session_t_send_receive(request) == Unsupported("pub", "send_receive")

zmq_subscription_session_t_send_receive(request) ==
  Unsupported("sub", "send_receive")

zmq_reply_session_t_send(request) ==
  SocketSend("rep", request, serialize(request))

\* reply.receive handing out the frame it returned last when recv has
\* nothing new.
zmq_reply_session_t_receive_cached(block) ==
  IF /\ is_connected("rep")
     /\ chan["ctrl"]["fwd"] = <<>>
     /\ ret.s = "rep" /\ ret.op = "receive" /\ ret.kind = "return"
  THEN Ends([ret EXCEPT !.block = block],
            [Now EXCEPT !.taken["rep"] = Append(@, ret.fid)])
  ELSE SocketRecv("rep", block)

zmq_reply_session_t_receive(block) == SocketRecv("rep", block)

zmq_request_session_t_send(request) ==
  SocketSend("req", request, serialize(request))

zmq_request_session_t_receive(block) == SocketRecv("req", block)

\* A call of a session method as a step: the call comes back and leaves its
\* state; shown tells whether the caller's outcome is the one on record.
Call(m, shown) ==
  /\ m.ok
  /\ socket' = m.st.socket
  /\ created' = m.st.created
  /\ closes' = m.st.closes
  /\ attached' = m.st.attached
  /\ fsm' = m.st.fsm
  /\ peer' = m.st.peer
  /\ chan' = m.st.chan
  /\ lastEffective' = m.st.lastEffective
  /\ wire' = m.st.wire
  /\ taken' = m.st.taken
  /\ ret' = IF shown THEN m.out ELSE ret
  /\ UNCHANGED portTaken

\* ------------------------------------------------------------------ api
COMMAND == "command"

CMD_STATUS                    == "status"
CMD_START_TRACKING_TENNISBALL == "start_tracking_tennisball"
CMD_STOP_TRACKING_TENNISBALL  == "stop_tracking_tennisball"
CMD_CALIBRATE_CAMERA          == "calibrate_camera"
CMD_GET_TENNISBALL_COORDS     == "get_tennisball_coords"
CMD_CONFIGURE_LED             == "configure_led"
CMD_START_SENDING_CAMERA_FEED == "start_sending_camera_feed"
CMD_STOP_SENDING_CAMERA_FEED  == "stop_sending_camera_feed"
CMD_GET_CAMERA_FEED           == "get_camera_feed_req"
CMD_CAMERA_FEED_DATA          == "camera_feed_data"
CMD_TEST_CAMERA_FPS_REQ       == "test_camera_fps_req"

\* ------------------------------------------------------------- messages
\* dict(m) of each message class the server and its requesters build.
Request(command) == PyDict([command |-> command])

configure_led_req(period_ms, duty_cycle_percent) ==
  PyDict([command |-> CMD_CONFIGURE_LED, period_ms |-> period_ms,
          duty_cycle_percent |-> duty_cycle_percent])

status_rep(cmd_id, successful, msg) ==
  PyDict([command |-> CMD_STATUS, cmd_id |-> cmd_id,
          successful |-> successful, msg |-> msg])

camera_feed_data(left_feed, right_feed) ==
  PyDict([command |-> CMD_CAMERA_FEED_DATA, left_feed |-> left_feed,
          right_feed |-> right_feed])

\* Whether a received mapping has the fields Class(**reply) requires.
HasFields(request, names) == names \subseteq DOMAIN request.v

\* --------------------------------------------------------------- server
\* server.message_handler: the command tags with a handler.
message_handler ==
  {CMD_START_TRACKING_TENNISBALL, CMD_STOP_TRACKING_TENNISBALL,
   CMD_CALIBRATE_CAMERA, CMD_CONFIGURE_LED, CMD_START_SENDING_CAMERA_FEED,
   CMD_STOP_SENDING_CAMERA_FEED, CMD_GET_CAMERA_FEED, CMD_TEST_CAMERA_FPS_REQ}

\* What a handler does: the response it returns or the exception it raises,
\* and the streaming flag it leaves.
Responds(val, flag) == [kind |-> "return", val |-> val, err |-> "", flag |-> flag]
Throws(err, flag)   == [kind |-> "raise", val |-> PyNone, err |-> err, flag |-> flag]

start_tracking_tennisball(request, flag) ==
  Responds(status_rep(CMD_START_TRACKING_TENNISBALL, TRUE, ""), flag)

\* stop_tracking_tennisball switching the camera feed off as well.
stop_tracking_tennisball_feed_off(request, flag) ==
  Responds(status_rep(CMD_STOP_TRACKING_TENNISBALL, TRUE, ""), FALSE)

stop_tracking_tennisball(request, flag) ==
  Responds(status_rep(CMD_STOP_TRACKING_TENNISBALL, TRUE, ""), flag)

\* How each call of the calibration collaborator would end if it were
\* made: calibrate_camera for the left images, for the right images, and
\* save_camera_calibration. TRUE returns, FALSE raises an Exception.
Calibrations == [left : BOOLEAN, right : BOOLEAN, save : BOOLEAN]

\* The three try blocks with every one of them entered whatever result is.
calibrate_steps_unguarded(calib) ==
  [calls  |-> <<"left", "right", "save">>,
   result |-> calib.left /\ calib.right /\ calib.save,
   msg    |-> IF ~calib.save THEN "Failed to save the calibrate data!"
              ELSE IF ~calib.right THEN "Failed to calibrate the right camera!"
              ELSE IF ~calib.left THEN "Failed to calibrate the left camera!"
              ELSE ""]

\* The three try blocks of calibrate_camera, each under "if result": the
\* collaborator calls made, and result and msg after the last block. (The
\* except clauses read "msg+= = ..." in the source; they are taken as
\* "msg += ...", and str(e) is left out of msg.)
calibrate_steps(calib) ==
  LET left  == calib.left
      right == left /\ calib.right
      save  == right /\ calib.save
  IN  [calls  |-> <<"left">> \o (IF left THEN <<"right">> ELSE <<>>)
                             \o (IF right THEN <<"save">> ELSE <<>>),
       result |-> save,
       msg    |-> IF ~left THEN "Failed to calibrate the left camera!"
                  ELSE IF ~right THEN "Failed to calibrate the right camera!"
                  ELSE IF ~save THEN "Failed to save the calibrate data!"
                  ELSE ""]

calibrate_camera(request, flag, calib) ==
  Responds(status_rep(CMD_CALIBRATE_CAMERA, calibrate_steps(calib).result,
                      calibrate_steps(calib).msg), flag)

\* blink_led answering under the tag of the handler above it.
blink_led_pasted(request, flag) ==
  Responds(status_rep(CMD_CALIBRATE_CAMERA, TRUE, ""), flag)

\* configure_led_req(**reply) needs both fields.
blink_led(request, flag) ==
  IF HasFields(request, {"period_ms", "duty_cycle_percent"})
  THEN Responds(status_rep(CMD_CONFIGURE_LED, TRUE, ""), flag)
  ELSE Throws("TypeError", flag)

\* start_sending_camera_feed without its test of the flag.
start_sending_camera_feed_always(request, flag) ==
  Responds(status_rep(CMD_START_SENDING_CAMERA_FEED, TRUE, ""), TRUE)

\* start_sending_camera_feed switching the feed off when it rejects.
start_sending_camera_feed_toggles(request, flag) ==
  IF ~flag
  THEN Responds(status_rep(CMD_START_SENDING_CAMERA_FEED, TRUE, ""), TRUE)
  ELSE Responds(status_rep(CMD_START_SENDING_CAMERA_FEED, FALSE,
                           "Camera Feed is already running"), FALSE)

start_sending_camera_feed(request, flag) ==
  IF ~flag
  THEN Responds(status_rep(CMD_START_SENDING_CAMERA_FEED, TRUE, ""), TRUE)
  ELSE Responds(status_rep(CMD_START_SENDING_CAMERA_FEED, FALSE,
                           "Camera Feed is already running"), flag)

stop_sending_camera_feed(request, flag) ==
  IF flag
  THEN Responds(status_rep(CMD_STOP_SENDING_CAMERA_FEED, TRUE, ""), FALSE)
  ELSE Responds(status_rep(CMD_STOP_SENDING_CAMERA_FEED, FALSE,
                           "Camera Feed is not currently running"), flag)

\* Its first statement is messages.test_camera_fps_req(**reply), a name
\* messages.py does not define.
get_camera_feed(request, flag) == Throws("AttributeError", flag)

\* It captures its 100 frames and then calls messages.test_camera_fps_rep,
\* a name messages.py does not define.
test_camera_fps(request, flag) == Throws("AttributeError", flag)

\* handler(reply) for the handler message_handler holds under the tag.
Handle(request, flag, calib) ==
  LET command == request.v[COMMAND]
  IN  CASE command = CMD_START_TRACKING_TENNISBALL -> start_tracking_tennisball(request, flag)
        [] command = CMD_STOP_TRACKING_TENNISBALL  -> stop_tracking_tennisball(request, flag)
        [] command = CMD_CALIBRATE_CAMERA          -> calibrate_camera(request, flag, calib)
        [] command = CMD_CONFIGURE_LED             -> blink_led(request, flag)
        [] command = CMD_START_SENDING_CAMERA_FEED -> start_sending_camera_feed(request, flag)
        [] command = CMD_STOP_SENDING_CAMERA_FEED  -> stop_sending_camera_feed(request, flag)
        [] command = CMD_GET_CAMERA_FEED           -> get_camera_feed(request, flag)
        [] OTHER                                   -> test_camera_fps(request, flag)

ServerInit ==
  /\ srv_is_connected = FALSE
  /\ send_camera_feed = FALSE
  /\ camera = "none"
  /\ main = "idle"
  /\ main_err = ""
  /\ ctrl = "new"
  /\ feed = "new"
  /\ reply = PyNone

\* --------------------------------------------- the sessions driven directly
NoFrames == [p \in Ports |-> [fwd |-> <<>>, back |-> <<>>]]

SessionInit ==
  /\ socket = [s \in Sessions |-> 0]
  /\ created = [s \in Sessions |-> 0]
  /\ closes = [s \in Sessions |-> <<>>]
  /\ attached = [s \in Sessions |-> FALSE]
  /\ fsm = [s \in Sessions |-> FirstTurn(s)]
  /\ peer = [s \in Sessions |-> 0]
  /\ chan = NoFrames
  /\ portTaken = {}
  /\ ret = NoCall
  /\ lastEffective = [s \in Sessions |-> "none"]
  /\ wire = [p \in Ports |-> <<>>]
  /\ taken = [s \in Sessions |-> <<>>]

\* client.__init__.
NoMethod == [op |-> "", kind |-> "return", err |-> "", arg |-> "", reply |-> PyNone]

ClientInit ==
  /\ cli_is_connected = FALSE
  /\ cli = ""
  /\ cli_out = NoMethod

\* No function under trial.
NoTrial == [op |-> "", arg |-> PyNone, done |-> FALSE, out |-> PyNone]

Init ==
  /\ focus \in Ports
  /\ trial = NoTrial
  /\ SessionInit
  /\ ServerInit
  /\ ClientInit

\* The sessions the caller drives: the pair on the port in focus; with a
\* server running, the requester's request and pull sessions; with a client,
\* the reply and push sessions it talks to.
Driven ==
  IF focus = "server" THEN {"req", "pull"}
  ELSE IF focus = "client" THEN {"rep", "push"}
  ELSE {s \in Sessions : port(s) = focus}

\* The requests sent to a server: one per command tag of the handler table
\* (configure_led with the period and duty cycle of the spec's scenario), a
\* tag api.py defines and the table lacks, and None.
Requests ==
  {Request(c) : c \in message_handler \ {CMD_CONFIGURE_LED}}
    \cup {configure_led_req(500, 50), Request(CMD_GET_TENNISBALL_COORDS), PyNone}

\* The status responses a client is answered with: a success, and the
\* failure start_sending_camera_feed answers while the feed is running.
StatusReplies ==
  {status_rep(CMD_CONFIGURE_LED, TRUE, ""),
   status_rep(CMD_START_SENDING_CAMERA_FEED, FALSE,
              "Camera Feed is already running")}

\* The value a caller passes to send, as in tests/test_session.py: the
\* replier answers REQ_RESPONSE, the others send MSG_SENT; a requester of a
\* server sends requests; a client is sent status responses and frames.
SendValues(s) ==
  IF focus = "server" THEN Requests
  ELSE IF focus = "client"
  THEN IF s = "rep" THEN StatusReplies ELSE {camera_feed_data("jpeg", "jpeg")}
  ELSE IF s = "rep" THEN {REQ_RESPONSE} ELSE {MSG_SENT}

\* A request is sent only when the port's budget of frames has room for its
\* response too.
Room(s) == IF s = "req" THEN 2 ELSE 1

\* A requester of a server, and the serving end of a client, connects or
\* binds once, to the server's address.
Start(s, ip_address) ==
  /\ s \in Driven
  /\ focus \notin Ports => ip_address = LOCAL_IP_ADDRESS /\ created[s] = 0
  /\ Call(start(s, ip_address), focus \in Ports)
  /\ UNCHANGED <<focus, trial, clientVars, serverVars>>

Stop(s) ==
  /\ s \in Driven
  /\ Call(stop(s), focus \in Ports)
  /\ UNCHANGED <<focus, trial, clientVars, serverVars>>

Send(s, request) ==
  /\ s \in Driven
  /\ Len(wire[port(s)]) + Room(s) <= MaxFrames
  /\ Call(CASE s = "rep"  -> zmq_reply_session_t_send(request)
            [] s = "req"  -> zmq_request_session_t_send(request)
            [] s = "push" -> zmq_push_session_t_send(request)
            [] s = "pub"  -> zmq_publish_session_t_send(request, TOPIC)
            [] s = "pull" -> zmq_pull_session_t_send(request)
            [] OTHER      -> zmq_subscription_session_t_send(request),
          focus \in Ports)
  /\ UNCHANGED <<focus, trial, clientVars, serverVars>>

Receive(s, block) ==
  /\ s \in Driven
  /\ Call(CASE s = "rep"  -> zmq_reply_session_t_receive(block)
            [] s = "req"  -> zmq_request_session_t_receive(block)
            [] s = "pull" -> zmq_pull_session_t_receive(block)
            [] s = "sub"  -> zmq_subscription_session_t_receive
            [] s = "push" -> zmq_push_session_t_receive
            [] OTHER      -> zmq_publish_session_t_receive,
          focus \in Ports)
  /\ UNCHANGED <<focus, trial, clientVars, serverVars>>

\* send_receive of the four one-way patterns. (On a reply or request session
\* send_receive is send followed by receive: a Send step, then a Receive
\* step.)
OneWay == {"push", "pull", "pub", "sub"}

SendReceive(s, request) ==
  /\ s \in Driven \cap OneWay
  /\ focus \in Ports
  /\ Call(CASE s = "push" -> zmq_push_session_t_send_receive(request)
            [] s = "pull" -> zmq_pull_session_t_send_receive(request)
            [] s = "pub"  -> zmq_publish_session_t_send_receive(request)
            [] OTHER      -> zmq_subscription_session_t_send_receive(request),
          TRUE)
  /\ UNCHANGED <<focus, trial, clientVars, serverVars>>

\* Another process binds, or releases, the port the pair uses.
TakePort ==
  /\ focus \in Ports \ portTaken
  /\ \A s \in Driven : Binds(s) => ~attached[s]
  /\ portTaken' = portTaken \cup {focus}
  /\ UNCHANGED <<focus, trial, clientVars, socket, created, closes, attached, fsm, peer, chan,
                 ret, lastEffective, wire, taken, serverVars>>

FreePort ==
  /\ focus \in portTaken
  /\ portTaken' = portTaken \ {focus}
  /\ UNCHANGED <<focus, trial, clientVars, socket, created, closes, attached, fsm, peer, chan,
                 ret, lastEffective, wire, taken, serverVars>>

Next ==
  \/ \E s \in Sessions, a \in Addresses : Start(s, a)
  \/ \E s \in Sessions : Stop(s)
  \/ \E s \in Sessions : \E m \in SendValues(s) : Send(s, m)
  \/ \E s \in Sessions, b \in BOOLEAN : Receive(s, b)
  \/ \E s \in Sessions : \E m \in SendValues(s) : SendReceive(s, m)
  \/ TakePort
  \/ FreePort

Spec == Init /\ [][Next]_vars

\* ------------------------------------------------------ the server running
\* Two calls one after the other on different sessions: the second is made
\* when the first has returned, and each leaves its own session's state.
Then(first, s, second) ==
  IF ~first.ok \/ first.out.kind = "raise" THEN first
  ELSE [ok  |-> second.ok,
        out |-> second.out,
        st  |-> [first.st EXCEPT !.socket[s] = second.st.socket[s],
                                 !.created[s] = second.st.created[s],
                                 !.closes[s] = second.st.closes[s],
                                 !.attached[s] = second.st.attached[s],
                                 !.fsm[s] = second.st.fsm[s],
                                 !.peer[s] = second.st.peer[s],
                                 !.lastEffective[s] = second.st.lastEffective[s],
                                 !.chan[port(s)] = second.st.chan[port(s)]]]

\* [worker.start() for worker in self.workers]: the two Thread objects of
\* __init__; a Thread starts once, a second start() raises RuntimeError.
StartWorkers ==
  IF ctrl = "new"
  THEN /\ ctrl' = "loop"
       /\ feed' = IF feed = "new" THEN "loop" ELSE feed
       /\ main_err' = IF feed = "new" THEN "" ELSE "RuntimeError"
  ELSE /\ main_err' = "RuntimeError"
       /\ UNCHANGED <<ctrl, feed>>

\* connect without its test of is_connected.
connect_unguarded(ip_address) ==
  /\ main = "idle"
  /\ srv_is_connected' = TRUE
  /\ \E opened \in BOOLEAN :
       IF ~opened
       THEN /\ main_err' = "OSError"
            /\ UNCHANGED <<sessionVars, camera, ctrl, feed>>
       ELSE LET m == Then(start("rep", ip_address), "push",
                          start("push", ip_address))
            IN  /\ camera' = "open"
                /\ Call(m, FALSE)
                /\ IF m.out.kind = "raise"
                   THEN main_err' = m.out.err /\ UNCHANGED <<ctrl, feed>>
                   ELSE StartWorkers
  /\ UNCHANGED <<focus, trial, clientVars, send_camera_feed, main, reply>>

\* server.connect: nothing when the flag is set; otherwise the flag is set
\* first, then the camera is opened (CameraFeed() raises when the driver is
\* missing), the two sessions are started and the workers are started. What
\* any of these raises ends connect there.
connect(ip_address) ==
  /\ main = "idle"
  /\ IF srv_is_connected
     THEN /\ main_err' = ""
          /\ UNCHANGED <<sessionVars, srv_is_connected, camera, ctrl, feed>>
     ELSE /\ srv_is_connected' = TRUE
          /\ \E opened \in BOOLEAN :
               IF ~opened
               THEN /\ main_err' = "OSError"
                    /\ UNCHANGED <<sessionVars, camera, ctrl, feed>>
               ELSE LET m == Then(start("rep", ip_address), "push",
                                  start("push", ip_address))
                    IN  /\ camera' = "open"
                        /\ Call(m, FALSE)
                        /\ IF m.out.kind = "raise"
                           THEN main_err' = m.out.err /\ UNCHANGED <<ctrl, feed>>
                           ELSE StartWorkers
  /\ UNCHANGED <<focus, trial, clientVars, send_camera_feed, main, reply>>

\* disconnect stopping the two sessions before it joins the workers.
disconnect_stops_first ==
  /\ main = "idle"
  /\ main_err' = ""
  /\ IF srv_is_connected
     THEN /\ srv_is_connected' = FALSE /\ main' = "join"
          /\ Call(Then(stop("rep"), "push", stop("push")), FALSE)
     ELSE UNCHANGED <<srv_is_connected, main, sessionVars>>
  /\ UNCHANGED <<focus, trial, clientVars, send_camera_feed, camera, ctrl, feed, reply>>

\* server.disconnect up to the joins: nothing when the flag is clear;
\* otherwise the flag is cleared and the workers are waited for.
disconnect ==
  /\ main = "idle"
  /\ main_err' = ""
  /\ IF srv_is_connected
     THEN srv_is_connected' = FALSE /\ main' = "join"
     ELSE UNCHANGED <<srv_is_connected, main>>
  /\ UNCHANGED <<focus, trial, clientVars, sessionVars, send_camera_feed, camera, ctrl, feed, reply>>

\* join() coming back at once, whatever the thread is doing.
Ended_nowait(worker) == TRUE

\* worker.join() returns once the thread has ended.
Ended(worker) == worker \in {"finished", "crashed"}

\* server.disconnect from the joins on. join() of a Thread never started
\* raises RuntimeError; otherwise it returns when the thread has ended, and
\* then both sessions are stopped and the camera is deleted (AttributeError
\* when it is deleted already).
Join ==
  /\ main = "join"
  /\ main' = "idle"
  /\ IF ctrl = "new" \/ feed = "new"
     THEN /\ main_err' = "RuntimeError"
          /\ UNCHANGED <<sessionVars, camera>>
     ELSE /\ Ended(ctrl) /\ Ended(feed)
          /\ Call(Then(stop("rep"), "push", stop("push")), FALSE)
          /\ camera' = "deleted"
          /\ main_err' = IF camera = "deleted" THEN "AttributeError" ELSE ""
  /\ UNCHANGED <<focus, trial, clientVars, srv_is_connected, send_camera_feed, ctrl, feed, reply>>

\* run, one turn of its loop up to the dispatch: the while test, then
\* ctrl_session.receive() without blocking; whatever it raises is passed
\* over, and None is no request.
RunReceive ==
  /\ ctrl = "loop"
  /\ IF ~srv_is_connected
     THEN /\ ctrl' = "finished"
          /\ UNCHANGED <<sessionVars, reply>>
     ELSE LET m == zmq_reply_session_t_receive(FALSE)
          IN  /\ Call(m, FALSE)
              /\ IF m.out.kind = "return" /\ m.out.val # PyNone
                 THEN ctrl' = "dispatch" /\ reply' = m.out.val
                 ELSE UNCHANGED <<ctrl, reply>>
  /\ UNCHANGED <<focus, trial, clientVars, srv_is_connected, send_camera_feed, camera, main,
                 main_err, feed>>

\* self.ctrl_session.send(dict(response)) when response is not None.
RunSend(response) ==
  IF response = PyNone
  THEN ctrl' = "loop" /\ UNCHANGED sessionVars
  ELSE LET m == zmq_reply_session_t_send(response)
       IN  /\ Call(m, FALSE)
           /\ ctrl' = IF m.out.kind = "raise" THEN "crashed" ELSE "loop"

\* The lookup with its KeyError caught by the try like a failed receive.
LookupFails_caught ==
  ctrl' = "loop" /\ UNCHANGED <<sessionVars, send_camera_feed>>

\* self.message_handler[reply[api.COMMAND]] raising KeyError (TypeError on
\* a reply that is no mapping): raised in the else branch, it ends run.
LookupFails ==
  ctrl' = "crashed" /\ UNCHANGED <<sessionVars, send_camera_feed>>

\* run, the else branch of the try: self.message_handler[reply[api.COMMAND]],
\* handler(reply) and the send of what it returns. What the lookup, the
\* handler or the send raises is not caught and ends run; reply then stays
\* the request run ended on. The test_camera_fps handler is entered and
\* left in two steps: its captures take time.
RunDispatch ==
  /\ ctrl = "dispatch"
  /\ IF reply.ty # "dict" \/ ~HasFields(reply, {COMMAND})
     THEN LookupFails
     ELSE IF reply.v[COMMAND] \notin message_handler
     THEN LookupFails
     ELSE IF reply.v[COMMAND] = CMD_TEST_CAMERA_FPS_REQ
     THEN ctrl' = "capture" /\ UNCHANGED <<sessionVars, send_camera_feed>>
     ELSE \E calib \in Calibrations :
            LET out == Handle(reply, send_camera_feed, calib)
            IN  /\ send_camera_feed' = out.flag
                /\ IF out.kind = "raise"
                   THEN ctrl' = "crashed" /\ UNCHANGED sessionVars
                   ELSE RunSend(out.val)
  /\ reply' = IF ctrl' \in {"crashed", "capture"} THEN reply ELSE PyNone
  /\ UNCHANGED <<focus, trial, clientVars, srv_is_connected, camera, main, main_err, feed>>

\* test_camera_fps from inside its loop of camera.getStereoFrames() calls
\* to its end, and the send of what it returns.
RunCaptured ==
  /\ ctrl = "capture"
  /\ LET out == test_camera_fps(reply, send_camera_feed)
     IN  /\ send_camera_feed' = out.flag
         /\ IF out.kind = "raise"
            THEN ctrl' = "crashed" /\ UNCHANGED sessionVars
            ELSE RunSend(out.val)
  /\ reply' = IF ctrl' = "crashed" THEN reply ELSE PyNone
  /\ UNCHANGED <<focus, trial, clientVars, srv_is_connected, camera, main, main_err, feed>>

\* The loop's tests without the test of send_camera_feed.
FeedTest_ungated ==
  /\ feed = "loop"
  /\ feed' = IF ~srv_is_connected THEN "finished" ELSE "capture"
  /\ UNCHANGED <<focus, trial, clientVars, sessionVars, srv_is_connected, send_camera_feed, camera,
                 main, main_err, ctrl, reply>>

\* The loop's tests with the camera feed latched on by its first frame.
FeedTest_latched ==
  /\ feed = "loop"
  /\ feed' = IF ~srv_is_connected THEN "finished"
             ELSE IF send_camera_feed \/ wire["feed"] # <<>> THEN "capture"
             ELSE "loop"
  /\ UNCHANGED <<focus, trial, clientVars, sessionVars, srv_is_connected, send_camera_feed, camera,
                 main, main_err, ctrl, reply>>

\* run_camera_feed, the tests of one turn of its loop: with both flags set
\* it enters camera.getStereoFrames().
FeedTest ==
  /\ feed = "loop"
  /\ feed' = IF ~srv_is_connected THEN "finished"
             ELSE IF send_camera_feed THEN "capture" ELSE "loop"
  /\ UNCHANGED <<focus, trial, clientVars, sessionVars, srv_is_connected, send_camera_feed, camera,
                 main, main_err, ctrl, reply>>

\* run_camera_feed, the body: camera.getStereoFrames() returns the pair of
\* frames.
FeedCapture ==
  /\ feed = "capture"
  /\ feed' = "send"
  /\ UNCHANGED <<focus, trial, clientVars, sessionVars, srv_is_connected, send_camera_feed, camera,
                 main, main_err, ctrl, reply>>

\* run_camera_feed, the body: the frames are encoded and pushed. The push
\* blocks while no puller is connected.
FeedSend ==
  /\ feed = "send"
  /\ Len(wire["feed"]) < MaxFrames
  /\ LET m == zmq_push_session_t_send(camera_feed_data("jpeg", "jpeg"))
     IN  /\ Call(m, FALSE)
         /\ feed' = IF m.out.kind = "raise" THEN "crashed" ELSE "loop"
  /\ UNCHANGED <<focus, trial, clientVars, srv_is_connected, send_camera_feed, camera, main,
                 main_err, ctrl, reply>>

ServerStart ==
  /\ focus = "server"
  /\ trial = NoTrial
  /\ SessionInit
  /\ ServerInit
  /\ ClientInit

ServerNext ==
  \/ \E a \in Addresses : connect(a)
  \/ disconnect
  \/ Join
  \/ RunReceive
  \/ RunDispatch
  \/ RunCaptured
  \/ FeedTest
  \/ FeedCapture
  \/ FeedSend
  \/ \E s \in Sessions, a \in Addresses : Start(s, a)
  \/ \E s \in Sessions : Stop(s)
  \/ \E s \in Sessions : \E m \in SendValues(s) : Send(s, m)
  \/ \E s \in Sessions, b \in BOOLEAN : Receive(s, b)

ServerSpec == ServerStart /\ [][ServerNext]_vars

\* The workers are threads the platform schedules, and a requester blocked
\* in receive returns once its response is there.
ServerFair ==
  /\ ServerSpec
  /\ WF_vars(RunReceive)
  /\ WF_vars(RunDispatch)
  /\ WF_vars(RunCaptured)
  /\ WF_vars(FeedTest)
  /\ WF_vars(FeedCapture)
  /\ WF_vars(FeedSend)
  /\ WF_vars(Receive("req", TRUE))

\* A request whose handler returns a response, whatever the calibration
\* collaborator does.
Responding(request) ==
  /\ request.ty = "dict" /\ HasFields(request, {COMMAND})
  /\ request.v[COMMAND] \in message_handler
  /\ \A calib \in Calibrations :
       LET out == Handle(request, send_camera_feed, calib)
       IN  out.kind = "return" /\ out.val # PyNone

\* run, the else branch, with the transport failing the send: the handler
\* has returned its response and socket.send raises zmq.ZMQError. Nothing
\* goes out, and the exception leaves run.
SendFails ==
  /\ ctrl = "dispatch"
  /\ Responding(reply)
  /\ is_connected("rep")
  /\ \E calib \in Calibrations :
       send_camera_feed' = Handle(reply, send_camera_feed, calib).flag
  /\ ctrl' = "crashed"
  /\ UNCHANGED <<focus, trial, clientVars, sessionVars, srv_is_connected, camera, main,
                 main_err, feed, reply>>

\* The frames of a requester that does not speak the codec: a byte that
\* starts no msgpack object, and an object cut short.
Malformed == {<<InvalidItem>>, <<TruncItem>>}

\* Such a requester puts a frame on its socket as it is; the wire records
\* the send as "malformed".
SendMalformed ==
  /\ focus = "server"
  /\ Len(wire["ctrl"]) + Room("req") <= MaxFrames
  /\ \E sbuf \in Malformed :
       LET m == SocketSend("req", PyNone, sbuf)
       IN  /\ m.out.kind = "return"
           /\ Call([m EXCEPT !.st.wire["ctrl"] =
                               Append(wire["ctrl"], "malformed")], FALSE)
  /\ UNCHANGED <<focus, trial, clientVars, serverVars>>

\* The server on a transport whose send may fail, with requesters that may
\* send malformed frames.
ServerFaultNext ==
  \/ ServerNext
  \/ SendFails
  \/ SendMalformed

ServerFaultSpec == ServerStart /\ [][ServerFaultNext]_vars

\* ServerFair with the thread that called disconnect() scheduled as well.
ServerLive == ServerFair /\ WF_vars(Join)

\* ------------------------------------------------------------- the client
\* How a client method ends: what it raised and with which argument, and the
\* response it had decoded.
MethodReturned(op, response) ==
  [op |-> op, kind |-> "return", err |-> "", arg |-> "", reply |-> response]

MethodRaised(op, err, arg, response) ==
  [op |-> op, kind |-> "raise", err |-> err, arg |-> arg, reply |-> response]

\* client.connect: nothing when the flag is set; otherwise the request
\* session and the pull session are started and then the flag is set. What
\* a start raises ends connect before the flag is written.
client_connect(ip_address) ==
  /\ focus = "client"
  /\ cli = ""
  /\ IF cli_is_connected
     THEN /\ cli_out' = MethodReturned("connect", PyNone)
          /\ UNCHANGED <<sessionVars, cli_is_connected>>
     ELSE LET m == Then(start("req", ip_address), "pull",
                        start("pull", ip_address))
          IN  /\ Call(m, FALSE)
              /\ IF m.out.kind = "raise"
                 THEN /\ cli_out' = MethodRaised("connect", m.out.err, "", PyNone)
                      /\ UNCHANGED cli_is_connected
                 ELSE /\ cli_out' = MethodReturned("connect", PyNone)
                      /\ cli_is_connected' = TRUE
  /\ UNCHANGED <<focus, trial, serverVars, cli>>

\* client.disconnect: nothing when the flag is clear; otherwise the two
\* sessions are stopped. The flag is not written.
client_disconnect ==
  /\ focus = "client"
  /\ cli = ""
  /\ IF cli_is_connected
     THEN Call(Then(stop("req"), "pull", stop("pull")), FALSE)
     ELSE UNCHANGED sessionVars
  /\ cli_out' = MethodReturned("disconnect", PyNone)
  /\ UNCHANGED <<focus, trial, serverVars, cli_is_connected, cli>>

\* The command methods answered with a status response, and dict(req) of
\* the request each builds (blink_led with the period and duty cycle of the
\* spec's scenario).
StatusMethods ==
  {"start_tracking_tennisball", "stop_tracking_tennisball", "calibrate_camera",
   "blink_led", "start_sending_camera_feed", "stop_sending_camera_feed"}

client_request(method) ==
  IF method = "blink_led" THEN configure_led_req(500, 50)
  ELSE IF method = "get_camera_feed" THEN Request(CMD_GET_CAMERA_FEED)
  ELSE Request(method)

\* The command methods that come to their send_receive: the status-answered
\* ones and get_camera_feed; and all the command methods of the client.
ExchangingMethods == StatusMethods \cup {"get_camera_feed"}
CommandMethods == ExchangingMethods \cup {"test_camera_fps"}

\* A command method up to the send of send_receive: the request goes out on
\* the request session; what the send raises ends the method.
client_command_send(method) ==
  /\ focus = "client"
  /\ cli = ""
  /\ Len(wire["ctrl"]) + Room("req") <= MaxFrames
  /\ LET m == zmq_request_session_t_send(client_request(method))
     IN  /\ Call(m, FALSE)
         /\ IF m.out.kind = "raise"
            THEN /\ cli_out' = MethodRaised(method, m.out.err, "", PyNone)
                 /\ UNCHANGED cli
            ELSE /\ cli' = method
                 /\ UNCHANGED cli_out
  /\ UNCHANGED <<focus, trial, serverVars, cli_is_connected>>

\* The end of a command method without the assert.
client_status_unchecked(method, response) == MethodReturned(method, response)

\* msg = status_rep(**reply); assert (msg.successful == True), msg.msg.
\* status_rep takes cmd_id and successful, msg with "" as its default, and
\* drops any other key.
client_status(method, response) ==
  IF response.ty # "dict" \/ ~HasFields(response, {"cmd_id", "successful"})
  THEN MethodRaised(method, "TypeError", "", response)
  ELSE IF response.v.successful = TRUE
  THEN MethodReturned(method, response)
  ELSE MethodRaised(method, "AssertionError",
                    IF "msg" \in DOMAIN response.v THEN response.v.msg ELSE "",
                    response)

\* get_camera_feed after its send_receive: camera_feed_data(**reply) takes
\* left_feed and right_feed and drops any other key; the two images are
\* decoded and returned.
client_feed(method, response) ==
  IF response.ty # "dict" \/ ~HasFields(response, {"left_feed", "right_feed"})
  THEN MethodRaised(method, "TypeError", "", response)
  ELSE MethodReturned(method, response)

\* client.test_camera_fps: its first statement reads
\* messages.test_camera_fps_req, a name messages.py does not define, and
\* raises AttributeError; nothing is sent.
client_test_camera_fps ==
  /\ focus = "client"
  /\ cli = ""
  /\ cli_out' = MethodRaised("test_camera_fps", "AttributeError", "", PyNone)
  /\ UNCHANGED <<focus, trial, serverVars, sessionVars, cli_is_connected, cli>>

\* A command method from the receive of send_receive on: the blocking
\* receive, then the response is decoded and checked.
client_command_receive ==
  /\ focus = "client"
  /\ cli # ""
  /\ LET m == zmq_request_session_t_receive(TRUE)
     IN  /\ Call(m, FALSE)
         /\ cli_out' = IF m.out.kind = "raise"
                       THEN MethodRaised(cli, m.out.err, "", PyNone)
                       ELSE IF cli = "get_camera_feed"
                       THEN client_feed(cli, m.out.val)
                       ELSE client_status(cli, m.out.val)
  /\ cli' = ""
  /\ UNCHANGED <<focus, trial, serverVars, cli_is_connected>>

ClientStart ==
  /\ focus = "client"
  /\ trial = NoTrial
  /\ SessionInit
  /\ ServerInit
  /\ ClientInit

ClientNext ==
  \/ \E a \in Addresses : client_connect(a)
  \/ client_disconnect
  \/ \E method \in ExchangingMethods : client_command_send(method)
  \/ client_test_camera_fps
  \/ client_command_receive
  \/ \E s \in Sessions, a \in Addresses : Start(s, a)
  \/ \E s \in Sessions : Stop(s)
  \/ \E s \in Sessions : \E m \in SendValues(s) : Send(s, m)
  \/ \E s \in Sessions, b \in BOOLEAN : Receive(s, b)

ClientSpec == ClientStart /\ [][ClientNext]_vars

\* ------------------------------------------------- messages.py as objects
\* An object of a class of messages.py: its class and its __dict__.
Object(cls, fields) == [ty |-> cls, v |-> fields]

PyList(items) == [ty |-> "list", v |-> items]

point3D(x, y, z) == Object("point3D", [x |-> x, y |-> y, z |-> z])

\* The classes taking no argument, with the command tag each passes to
\* message_t.__init__.
RequestClasses ==
  {"start_tracking_req", "stop_tracking_req", "calibrate_camera_req",
   "get_tenniscourt_boundaries_req", "start_sending_camera_feed_req",
   "stop_sending_camera_feed_req", "get_camera_feed_req"}

Tag(cls) ==
  CASE cls = "start_tracking_req"             -> CMD_START_TRACKING_TENNISBALL
    [] cls = "stop_tracking_req"              -> CMD_STOP_TRACKING_TENNISBALL
    [] cls = "calibrate_camera_req"           -> CMD_CALIBRATE_CAMERA
    [] cls = "get_tenniscourt_boundaries_req" -> "get_tenniscourt_boundaries_req"
    [] cls = "start_sending_camera_feed_req"  -> CMD_START_SENDING_CAMERA_FEED
    [] cls = "stop_sending_camera_feed_req"   -> CMD_STOP_SENDING_CAMERA_FEED
    [] OTHER                                  -> CMD_GET_CAMERA_FEED

\* get_tenniscourt_boundaries_rep.__init__, its loop: it walks a copy of
\* corners and appends to corners itself, a point3D built from each dict
\* and every other element as it is; self.corners is that same list.
Corners(corners) ==
  PyList(corners.v \o
         [i \in DOMAIN corners.v |->
            IF corners.v[i].ty = "dict"
            THEN point3D(corners.v[i].v.x, corners.v[i].v.y, corners.v[i].v.z)
            ELSE corners.v[i]])

\* cls(**kw): the object the constructor leaves. Every message class takes
\* **kwargs, so the command key of a mapping is dropped and set again by
\* message_t.__init__.
New(cls, kw) ==
  CASE cls = "point3D" -> point3D(kw.x, kw.y, kw.z)
    [] cls = "status_rep" ->
         Object(cls, [command |-> CMD_STATUS, cmd_id |-> kw.cmd_id,
                      successful |-> kw.successful,
                      msg |-> IF "msg" \in DOMAIN kw THEN kw.msg ELSE ""])
    [] cls = "configure_led_req" ->
         Object(cls, [command |-> CMD_CONFIGURE_LED, period_ms |-> kw.period_ms,
                      duty_cycle_percent |-> kw.duty_cycle_percent])
    [] cls = "get_tenniscourt_boundaries_rep" ->
         Object(cls, [command |-> "get_tenniscourt_boundaries_rep",
                      corners |-> Corners(kw.corners)])
    [] cls = "camera_feed_data" ->
         Object(cls, [command |-> CMD_CAMERA_FEED_DATA,
                      left_feed |-> kw.left_feed, right_feed |-> kw.right_feed])
    [] OTHER -> Object(cls, [command |-> Tag(cls)])

\* The fields holding a list (isinstance(value, list)); no field holds a
\* sub_message_t directly.
ListFields == {"corners"}

\* isinstance(i, sub_message_t), for an element of a list.
IsSubMessage(i) == i.ty = "point3D"

\* dict(o) through sub_message_t.__iter__: every field of __dict__ under its
\* name, a list with each sub message in it replaced by its dict.
ToDict(o) ==
  PyDict([k \in DOMAIN o.v |->
            IF k \in ListFields
            THEN PyList([i \in DOMAIN o.v[k].v |->
                           IF IsSubMessage(o.v[k].v[i])
                           THEN PyDict(o.v[k].v[i].v)
                           ELSE o.v[k].v[i]])
            ELSE o.v[k]])

\* The corner lists a boundaries response is built from: four point3D
\* objects, or the four mappings a decoded response holds.
CornerPoints ==
  {<<point3D(0, 0, 0), point3D(x, 0, 0), point3D(x, y, 0), point3D(0, y, 0)>> :
     x \in {1, 2}, y \in {1, 2, 3}}

CornerLists ==
  {PyList(c) : c \in CornerPoints}
    \cup {PyList([i \in DOMAIN c |-> PyDict(c[i].v)]) : c \in CornerPoints}

\* The message variants, each as its class and the arguments it is
\* constructed from.
Variants ==
  {[cls |-> c, kw |-> <<>>] : c \in RequestClasses}
    \cup {[cls |-> "configure_led_req",
           kw |-> [period_ms |-> p, duty_cycle_percent |-> d]] :
            p \in {500, 1000}, d \in {50, 100}}
    \cup {[cls |-> "status_rep",
           kw |-> [cmd_id |-> c, successful |-> b, msg |-> g]] :
            c \in {CMD_CALIBRATE_CAMERA, CMD_START_SENDING_CAMERA_FEED},
            b \in BOOLEAN, g \in {"", "Camera Feed is already running"}}
    \cup {[cls |-> "camera_feed_data",
           kw |-> [left_feed |-> "jpeg", right_feed |-> "jpeg"]]}
    \cup {[cls |-> "point3D", kw |-> [x |-> x, y |-> y, z |-> 0]] :
            x \in {0, 1}, y \in {0, 1}}
    \cup {[cls |-> "get_tenniscourt_boundaries_rep", kw |-> [corners |-> c]] :
            c \in CornerLists}

\* A message is constructed, turned into its mapping and constructed again
\* from the mapping.
Rebuild ==
  /\ trial.op = "rebuild" /\ ~trial.done
  /\ LET m == New(trial.arg.cls, trial.arg.kw)
     IN  trial' = [trial EXCEPT !.done = TRUE,
                                !.out = [m |-> m,
                                         again |-> New(m.ty, ToDict(m).v)]]
  /\ UNCHANGED <<focus, sessionVars, serverVars, clientVars>>

\* The buffers handed to deserialize: up to MaxItems items, each a packed
\* mapping, a truncated object or an invalid byte.
MaxItems == 3

Items == {packb(MSG_SENT), packb(REQ_RESPONSE), TruncItem, InvalidItem}

Buffers == UNION {[1..n -> Items] : n \in 0..MaxItems}

\* deserialize(sbuf) as its caller sees it.
Decode ==
  /\ trial.op = "deserialize" /\ ~trial.done
  /\ trial' = [trial EXCEPT
                 !.done = TRUE,
                 !.out = IF deserialize_raises(trial.arg)
                         THEN [kind |-> "raise", val |-> PyNone]
                         ELSE [kind |-> "return", val |-> deserialize(trial.arg)]]
  /\ UNCHANGED <<focus, sessionVars, serverVars, clientVars>>

\* The calibrate_camera handler called by run with a request for it: what
\* it returns, the collaborator calls it made, and whether run then sends
\* (response is not None).
Calibrate ==
  /\ trial.op = "calibrate_camera" /\ ~trial.done
  /\ LET h == Handle(Request(CMD_CALIBRATE_CAMERA), trial.arg.flag,
                     trial.arg.calib)
     IN  trial' = [trial EXCEPT
                     !.done = TRUE,
                     !.out = [handler |-> h,
                              calls |-> calibrate_steps(trial.arg.calib).calls,
                              sends |-> h.kind = "return" /\ h.val # PyNone]]
  /\ UNCHANGED <<focus, sessionVars, serverVars, clientVars>>

\* A request object is built, turned into its mapping and looked up in
\* message_handler as run does; the handler found is called with it.
Dispatch ==
  /\ trial.op = "dispatch" /\ ~trial.done
  /\ LET request == ToDict(New(trial.arg.cls, trial.arg.kw))
     IN  \E calib \in Calibrations :
           trial' = [trial EXCEPT
                       !.done = TRUE,
                       !.out = IF request.v[COMMAND] \in message_handler
                               THEN [found |-> TRUE,
                                     handler |-> Handle(request, trial.arg.flag, calib)]
                               ELSE [found |-> FALSE,
                                     handler |-> Throws("KeyError", trial.arg.flag)]]
  /\ UNCHANGED <<focus, sessionVars, serverVars, clientVars>>

ValueStart ==
  /\ focus = "values"
  /\ SessionInit
  /\ ServerInit
  /\ ClientInit
  /\ trial \in {[op |-> "rebuild", arg |-> a, done |-> FALSE, out |-> PyNone] :
                  a \in Variants}
          \cup {[op |-> "deserialize", arg |-> b, done |-> FALSE, out |-> PyNone] :
                  b \in Buffers}
          \cup {[op |-> "calibrate_camera", arg |-> [calib |-> c, flag |-> f],
                 done |-> FALSE, out |-> PyNone] :
                  c \in Calibrations, f \in BOOLEAN}
          \cup {[op |-> "dispatch", arg |-> [cls |-> a.cls, kw |-> a.kw, flag |-> f],
                 done |-> FALSE, out |-> PyNone] :
                  a \in {v \in Variants : v.cls \in RequestClasses
                                            \/ v.cls = "configure_led_req"},
                  f \in BOOLEAN}

ValueNext ==
  \/ Rebuild
  \/ Decode
  \/ Calibrate
  \/ Dispatch

ValueSpec == ValueStart /\ [][ValueNext]_vars

\* ------------------------------------------------------------ properties
\* Frames run's receive has taken off the control socket, and sends run has
\* made on it.
CtrlReceived == Len(taken["rep"])
CtrlSent == Cardinality({i \in DOMAIN wire["ctrl"] : wire["ctrl"][i] = "rep"})

\* C1: whenever the control loop is about to call ctrl_session.receive,
\* every frame it has received so far has had its one ctrl_session.send:
\* the loop never comes back to receive with a received frame unanswered.
AnsweredBeforeNextReceive == ctrl = "loop" => CtrlReceived = CtrlSent

\* A request the handler table has a handler for.
WellFormed(request) ==
  /\ request.ty = "dict"
  /\ COMMAND \in DOMAIN request.v
  /\ request.v[COMMAND] \in message_handler
  /\ request.v[COMMAND] = CMD_CONFIGURE_LED =>
       HasFields(request, {"period_ms", "duty_cycle_percent"})

\* The requester has sent a request and has not had its response.
Outstanding == is_connected("req") /\ attached["req"] /\ fsm["req"] = "recv"

\* The requester's well-formed request is with a connected server whose
\* control loop is running and in step: queued for the loop's receive, or
\* in the loop's hands.
Accepted ==
  /\ Outstanding
  /\ srv_is_connected /\ is_connected("rep") /\ attached["rep"]
  /\ \/ /\ ctrl = "loop" /\ fsm["rep"] = "recv"
        /\ Len(chan["ctrl"]["fwd"]) = 1
        /\ WellFormed(chan["ctrl"]["fwd"][1].val)
     \/ ctrl = "dispatch" /\ WellFormed(reply)

\* C2: a well-formed request that reaches a connected server with its
\* control loop running is answered: the requester gets its response, unless
\* it gives up or the server is disconnected first.
EveryRequestAnswered == Accepted ~> (~Outstanding \/ ~srv_is_connected)

\* Everything a lifecycle call on s could change is as it was.
Untouched(s) ==
  /\ socket'[s] = socket[s]
  /\ created'[s] = created[s]
  /\ closes'[s] = closes[s]
  /\ attached'[s] = attached[s]
  /\ chan' = chan

\* C3: for every pattern, start on a session that holds a socket returns
\* without an error, creates no socket, leaves the handle it held and
\* leaves is_connected true.
StartTwiceNoOp ==
  [][\A s \in Sessions, a \in Addresses :
       (is_connected(s) /\ Start(s, a)) =>
         /\ ret'.kind = "return"
         /\ Untouched(s)
         /\ is_connected(s)']_vars

\* C3, reached: a start was called on a session holding a socket, and has
\* returned.
StartTwiceSeen ==
  ret.op = "start" /\ ret.held /\ ret.kind = "return" /\ is_connected(ret.s)

\* Every socket s created is closed once, except the one it holds, which is
\* open.
ClosedOnce(s) ==
  \A n \in 1..created[s] : closes[s][n] = IF n = socket[s] THEN 0 ELSE 1

\* C4: for every pattern, stop returns without an error and leaves
\* is_connected false; on a session holding no socket it closes nothing;
\* and no socket is ever closed twice or left open once let go.
StopIdempotent ==
  /\ [](ret.op = "stop" => ret.kind = "return" /\ ~is_connected(ret.s))
  /\ [](\A s \in Sessions : ClosedOnce(s))
  /\ [][\A s \in Sessions :
          (~is_connected(s) /\ Stop(s)) => Untouched(s) /\ ret'.kind = "return"]_vars

\* C4, reached: a stop was called on a session that had been started and
\* stopped before.
StopTwiceSeen ==
  /\ ret.op = "stop" /\ ~ret.held /\ ret.kind = "return"
  /\ created[ret.s] > 0 /\ closes[ret.s][created[ret.s]] = 1

\* C5: is_connected is true exactly when the last lifecycle call that went
\* through (a start that made a socket, a stop that closed one) was a
\* start, and the socket then held is the newest one, never closed.
ConnectedIffStarted ==
  \A s \in Sessions :
    /\ is_connected(s) <=> lastEffective[s] = "start"
    /\ is_connected(s) => socket[s] = created[s] /\ closes[s][socket[s]] = 0

\* C5, reached: a session stopped and started again holds its second
\* socket.
RestartedSeen ==
  \E s \in Sessions :
    created[s] = 2 /\ socket[s] = 2 /\ closes[s][1] = 1 /\ ret.op = "start"

\* C6: after a start that raised, the session holds no socket.
FailedStartUnbound ==
  (ret.op = "start" /\ ret.kind = "raise") => ~is_connected(ret.s)

\* The two sessions each hold their first socket, bound and connected to
\* the same address.
Paired(a, b) ==
  /\ created[a] = 1 /\ is_connected(a) /\ attached[a]
  /\ created[b] = 1 /\ is_connected(b) /\ attached[b]

\* The sends the frames of a queue came from, in queue order.
Ids(q) == [i \in DOMAIN q |-> q[i].id]

\* C7: with the push session bound and the pull session connected to it,
\* the frames pull.receive has taken followed by those still queued are the
\* sends of push.send, each once and in send order; each queued frame
\* decodes to the message sent, and so did the one a receive just returned.
PushPullDelivery ==
  Paired("push", "pull") =>
    /\ taken["pull"] \o Ids(chan["feed"]["back"])
         = [i \in 1..Len(wire["feed"]) |-> i]
    /\ \A i \in DOMAIN chan["feed"]["back"] :
         LET f == chan["feed"]["back"][i]
         IN  ~deserialize_raises(f.body) /\ deserialize(f.body) = f.val
    /\ (ret.s = "pull" /\ ret.op = "receive" /\ ret.fid > 0) =>
         ret.kind = "return" /\ ret.val = ret.was /\ ret.val # PyNone

\* C7, reached: a blocking pull.receive has returned the second message
\* pushed.
PushPullSeen ==
  /\ Paired("push", "pull")
  /\ ret.s = "pull" /\ ret.op = "receive" /\ ret.block /\ ret.kind = "return"
  /\ ret.fid = 2 /\ ret.val = MSG_SENT

\* C8: on a reply and a request session bound and connected to the same
\* address, a receive that takes a frame returns the message of the latest
\* send, which the other session made: the request on the reply session,
\* the response on the request session, round after round.
RequestReplyExchange ==
  (Paired("rep", "req") /\ ret.op = "receive" /\ ret.fid > 0) =>
    /\ ret.kind = "return"
    /\ ret.val = ret.was
    /\ ret.fid = Len(wire["ctrl"])
    /\ wire["ctrl"][ret.fid] = Other(ret.s)
    /\ ret.val = IF ret.s = "rep" THEN MSG_SENT ELSE REQ_RESPONSE

\* C8, reached: the requester's blocking receive has returned the response
\* of the second round.
SecondRoundSeen ==
  /\ Paired("rep", "req")
  /\ ret.s = "req" /\ ret.op = "receive" /\ ret.block /\ ret.kind = "return"
  /\ ret.fid = 4

\* C9: reply.receive takes each request frame once: no send appears twice
\* among the frames it has returned.
NoStaleRequest ==
  \A i, j \in DOMAIN taken["rep"] : taken["rep"][i] = taken["rep"][j] => i = j

\* C9, reached: reply.receive was called again after it returned a request,
\* with no new request there, and returned nothing.
ReceiveAgainSeen ==
  /\ ret.s = "rep" /\ ret.op = "receive" /\ ret.held
  /\ ret.kind = "raise" /\ ret.fid = 0
  /\ Len(taken["rep"]) > 0
  /\ chan["ctrl"]["fwd"] = <<>>

\* C10: a receive without blocking on a reply, request or pull session that
\* holds a socket whose turn it is to receive, with no frame pending,
\* returns None.
WouldBlockReturnsNone ==
  (/\ ret.op = "receive" /\ ~ret.block /\ ret.s \in {"rep", "req", "pull"}
   /\ ret.held /\ ret.fid = 0
   /\ LockStep(ret.s) => fsm[ret.s] = "recv")
    => ret.kind = "return" /\ ret.val = PyNone

\* A call of an operation s's pattern does not support.
UnsupportedCall(s) ==
  \/ s \in {"pull", "sub"} /\ \E m \in SendValues(s) : Send(s, m)
  \/ s \in {"push", "pub"} /\ \E b \in BOOLEAN : Receive(s, b)
  \/ s \in OneWay /\ \E m \in SendValues(s) : SendReceive(s, m)

\* C11: send on pull and subscribe, receive on push and publish, and
\* send_receive on all four raise NotImplementedError whether or not a socket
\* is held, and change nothing: no frame sent or taken, the handle and all
\* that hangs on it as before.
UnsupportedNoEffect ==
  [][\A s \in Sessions :
       UnsupportedCall(s) =>
         /\ ret'.kind = "raise" /\ ret'.err = "NotImplementedError"
         /\ UNCHANGED <<socket, created, closes, attached, fsm, peer, chan,
                        lastEffective, wire, taken>>]_vars

\* C11, reached: pull.send_receive was called on a connected pull session
\* with a message waiting for it, and raised.
UnsupportedSeen ==
  /\ ret.s = "pull" /\ ret.op = "send_receive" /\ ret.held
  /\ ret.err = "NotImplementedError"
  /\ chan["feed"]["back"] # <<>>

\* The step in which run looks up and calls the handler of the request it
\* holds.
Dispatching == ctrl = "dispatch" /\ ctrl' # "dispatch"

\* The response the step has put on the way to the requester, if it has.
Answering == Len(chan'["ctrl"]["back"]) = Len(chan["ctrl"]["back"]) + 1

Answer == chan'["ctrl"]["back"][Len(chan'["ctrl"]["back"])].val

\* C12: start_sending_camera_feed leaves the streaming flag set and answers
\* successful exactly when it was clear; stop_sending_camera_feed leaves it
\* clear and answers successful exactly when it was set; both answer with a
\* status; and no other step of the server writes the flag.
FeedGating ==
  [][LET command == reply.v[COMMAND]
         on == command = CMD_START_SENDING_CAMERA_FEED
     IN  IF /\ Dispatching /\ WellFormed(reply)
            /\ command \in {CMD_START_SENDING_CAMERA_FEED,
                            CMD_STOP_SENDING_CAMERA_FEED}
         THEN /\ send_camera_feed' = on
              /\ ctrl' = "loop"
              /\ Answering =>
                   /\ Answer.v[COMMAND] = CMD_STATUS
                   /\ Answer.v.successful = (send_camera_feed # on)
         ELSE send_camera_feed' = send_camera_feed]_vars

\* C12, reached: a second start_sending_camera_feed, sent while streaming,
\* has been answered unsuccessful.
StartWhileStreamingSeen ==
  /\ send_camera_feed
  /\ chan["ctrl"]["back"] # <<>>
  /\ chan["ctrl"]["back"][1].val =
       status_rep(CMD_START_SENDING_CAMERA_FEED, FALSE,
                  "Camera Feed is already running")

\* The commands whose handler answers with a status_rep.
StatusCommands ==
  {CMD_START_TRACKING_TENNISBALL, CMD_STOP_TRACKING_TENNISBALL,
   CMD_CALIBRATE_CAMERA, CMD_CONFIGURE_LED, CMD_START_SENDING_CAMERA_FEED,
   CMD_STOP_SENDING_CAMERA_FEED}

\* C13: the response run sends for a request of a status-returning handler
\* is a status whose cmd_id is the command of the request being answered,
\* with the four fields of status_rep; configure_led with period 500 and
\* duty cycle 50 is answered successful with an empty msg.
StatusEchoesCommand ==
  [][(/\ Dispatching /\ WellFormed(reply)
      /\ reply.v[COMMAND] \in StatusCommands) =>
       /\ ctrl' = "loop"
       /\ Answering =>
            /\ DOMAIN Answer.v = {"command", "cmd_id", "successful", "msg"}
            /\ Answer.v[COMMAND] = CMD_STATUS
            /\ Answer.v.cmd_id = reply.v[COMMAND]
            /\ reply = configure_led_req(500, 50) =>
                 Answer = status_rep(CMD_CONFIGURE_LED, TRUE, "")]_vars

\* C13, reached: the response to configure_led is on its way to the
\* requester.
ConfigureLedAnswered ==
  /\ chan["ctrl"]["back"] # <<>>
  /\ chan["ctrl"]["back"][1].val = status_rep(CMD_CONFIGURE_LED, TRUE, "")
  /\ Outstanding

\* A request with a command tag the handler table has no entry for.
UnknownTag(request) ==
  /\ request.ty = "dict"
  /\ COMMAND \in DOMAIN request.v
  /\ request.v[COMMAND] \notin message_handler

\* C14: dispatching a request whose command tag is not in the handler
\* table sends nothing and ends the control loop; and a control loop that
\* has ended takes no further request and sends nothing more.
UnknownCommandFatal ==
  [][/\ (Dispatching /\ UnknownTag(reply)) =>
          ctrl' = "crashed" /\ wire' = wire /\ chan' = chan
     /\ ctrl = "crashed" =>
          ctrl' = "crashed" /\ taken'["rep"] = taken["rep"]
                            /\ CtrlSent' = CtrlSent]_vars

\* C14, reached: the control loop has ended on a request with an unknown
\* tag, its requester still waiting and nothing sent.
UnknownCommandSeen ==
  ctrl = "crashed" /\ UnknownTag(reply) /\ Outstanding /\ CtrlSent = 0

\* The response the claim expects for a request with an unknown tag is on
\* its way to the requester.
UnknownAnswer ==
  /\ chan["ctrl"]["back"] # <<>>
  /\ chan["ctrl"]["back"][1].val.v[COMMAND] = CMD_STATUS
  /\ chan["ctrl"]["back"][1].val.v.successful = FALSE
  /\ chan["ctrl"]["back"][1].val.v.msg = "unknown command"

\* C15: a request with an unknown command tag that a connected server's
\* control loop has received is answered with an unsuccessful status saying
\* "unknown command", unless the requester gives up or the server is
\* disconnected first.
UnknownCommandAnswered ==
  (srv_is_connected /\ ctrl = "dispatch" /\ UnknownTag(reply) /\ Outstanding)
    ~> (UnknownAnswer \/ ~Outstanding \/ ~srv_is_connected)

\* disconnect() of a connected server comes back without an error.
DisconnectReturns == main = "join" /\ main' = "idle" /\ main_err' = ""

\* A step closes one of the server's two sessions.
ServerSessionStopped ==
  \E s \in {"rep", "push"} : is_connected(s) /\ ~is_connected(s)'

\* C16: when disconnect() of a connected server returns, both worker loops
\* have ended, neither session holds a socket, the camera is released and
\* the flag is clear; and a server session is stopped only when both loops
\* have ended.
DisconnectReleases ==
  [][/\ DisconnectReturns =>
          /\ Ended(ctrl)' /\ Ended(feed)'
          /\ ~is_connected("rep")' /\ ~is_connected("push")'
          /\ camera' = "deleted"
          /\ ~srv_is_connected'
     /\ ServerSessionStopped =>
          ctrl \in {"finished", "crashed"} /\ feed \in {"finished", "crashed"}]_vars

\* C16, reached: disconnect() has returned on a server that was connected
\* and serving.
DisconnectedSeen ==
  /\ main = "idle" /\ main_err = "" /\ ~srv_is_connected
  /\ camera = "deleted"
  /\ created["rep"] = 1 /\ created["push"] = 1
  /\ closes["rep"][1] = 1 /\ closes["push"][1] = 1
  /\ CtrlSent > 0

\* C17: after disconnect() of a connected server has returned, the connected
\* flag and the streaming flag are both false, whatever the streaming flag
\* was before the call.
DisconnectClearsFlags ==
  [][DisconnectReturns => ~srv_is_connected' /\ ~send_camera_feed']_vars

\* The feed channel cannot take one more frame within the bounds: the frame
\* budget is used up or a connected consumer has let its queue fill.
FeedFull ==
  \/ Len(wire["feed"]) >= MaxFrames
  \/ Len(chan["feed"]["back"]) >= MaxQueue

\* C18: once disconnect() has cleared the connected flag, both loops see it
\* at their next test and end, so disconnect() returns, also with nobody
\* connected to the control channel and with streaming on and no consumer
\* on the feed channel.
ShutdownTerminates == (main = "join") ~> (main = "idle" \/ FeedFull)

\* C19: between client calls the client's flag is set exactly when both of
\* its sessions hold a socket; in particular it is clear after disconnect().
ClientFlagTracksSessions ==
  cli = "" => (cli_is_connected <=> (is_connected("req") /\ is_connected("pull")))

\* C20: a status-answered command method that has decoded its response
\* raises exactly when the response's successful is false, with the
\* response's msg as the argument, and returns normally when it is true.
StatusDecidesOutcome ==
  (cli_out.op \in StatusMethods /\ cli_out.reply # PyNone) =>
    /\ cli_out.kind = "raise" <=> cli_out.reply.v.successful = FALSE
    /\ cli_out.kind = "raise" =>
         cli_out.err = "AssertionError" /\ cli_out.arg = cli_out.reply.v.msg
    /\ cli_out.reply.v.successful = TRUE => cli_out.kind = "return"

\* C20, reached: a command method has failed on a response that says so.
CommandRefusedSeen ==
  /\ cli_out.op = "start_sending_camera_feed"
  /\ cli_out.kind = "raise"
  /\ cli_out.arg = "Camera Feed is already running"
  /\ cli_out.reply.v.successful = FALSE

\* C21: a message rebuilt from its mapping has the fields of the message it
\* came from, and a boundaries response built from four corners holds four
\* corners, each a point3D.
RoundTrip ==
  (trial.op = "rebuild" /\ trial.done) =>
    /\ trial.out.again = trial.out.m
    /\ trial.arg.cls = "get_tenniscourt_boundaries_rep" =>
         /\ Len(trial.out.again.v.corners.v) = 4
         /\ \A i \in DOMAIN trial.out.again.v.corners.v :
              trial.out.again.v.corners.v[i].ty = "point3D"

\* C22: deserialize returns None for an empty buffer, the first message for
\* a buffer of complete messages, and raises for a buffer that starts with
\* a truncated or malformed object.
DecodeContract ==
  (trial.op = "deserialize" /\ trial.done) =>
    /\ trial.arg = <<>> => trial.out = [kind |-> "return", val |-> PyNone]
    /\ (trial.arg # <<>> /\ \A i \in DOMAIN trial.arg :
                              trial.arg[i].fmt \notin {"trunc", "invalid"}) =>
         trial.out = [kind |-> "return", val |-> unpack(trial.arg[1])]
    /\ (trial.arg # <<>> /\ trial.arg[1].fmt \in {"trunc", "invalid"}) =>
         trial.out.kind = "raise"

\* C23: a message published under the topic a connected subscription
\* session subscribed to is queued for that session: the topic frame that
\* publish.send writes passes the filter that subscribe installed.
PublishDelivers ==
  (/\ ret.s = "pub" /\ ret.op = "send" /\ ret.kind = "return"
   /\ HasPipe("pub")
   /\ Len(chan["topic"]["back"]) < MaxQueue) =>
    \E i \in DOMAIN chan["topic"]["back"] :
      /\ chan["topic"]["back"][i].id = ret.fid
      /\ chan["topic"]["back"][i].val = MSG_SENT

GetCameraFeedInline ==
  [][(Dispatching /\ WellFormed(reply) /\ reply.v[COMMAND] = CMD_GET_CAMERA_FEED) =>
       /\ ctrl' = "loop"
       /\ CtrlSent' = CtrlSent + 1
       /\ Answering => Answer.v[COMMAND] = CMD_CAMERA_FEED_DATA
       /\ wire'["feed"] = wire["feed"]
       /\ send_camera_feed' = send_camera_feed]_vars

\* C26: the control loop and the feed loop are never both inside the
\* camera's frame capture.
CaptureExclusive == ~(ctrl = "capture" /\ feed = "capture")

\* C27: an error raised by ctrl_session.receive or ctrl_session.send does
\* not end the control loop: a turn of the loop that has a response to send
\* never ends run, and run ends from its while test only, with the connected
\* flag clear.
LoopSurvivesSocketErrors ==
  [][/\ (ctrl = "dispatch" /\ Responding(reply)) => ctrl' # "crashed"
     /\ ctrl = "loop" => ctrl' \in {"loop", "dispatch", "finished"}
     /\ (ctrl # "finished" /\ ctrl' = "finished") => ~srv_is_connected]_vars

\* The frame the control session took last was a malformed one.
MalformedTaken ==
  /\ taken["rep"] # <<>>
  /\ wire["ctrl"][taken["rep"][Len(taken["rep"])]] = "malformed"

\* C28: a malformed request frame costs the control loop that receive only:
\* back at the top of its loop, the control session can receive the next
\* request.
MalformedCostsOneReceive ==
  (ctrl = "loop" /\ is_connected("rep") /\ MalformedTaken) => fsm["rep"] = "recv"

\* The response kind each request class is answered with.
ResponseKind(cls) ==
  CASE cls = "get_camera_feed_req"            -> CMD_CAMERA_FEED_DATA
    [] cls = "get_tenniscourt_boundaries_req" -> "get_tenniscourt_boundaries_rep"
    [] OTHER                                  -> CMD_STATUS

\* C29: the command tag of every request class is a key of message_handler,
\* and the handler under it returns a message of the response kind that
\* goes with the request.
EveryRequestHandled ==
  (trial.op = "dispatch" /\ trial.done) =>
    /\ trial.out.found
    /\ trial.out.handler.kind = "return"
    /\ trial.out.handler.val.ty = "dict"
    /\ trial.out.handler.val.v[COMMAND] = ResponseKind(trial.arg.cls)

\* C30: the streaming flag changes only in a step of the control loop that
\* handles a start_sending_camera_feed or stop_sending_camera_feed request;
\* such a step is not the feed loop's, nor connect's or disconnect's.
SingleWriter ==
  [][send_camera_feed' # send_camera_feed =>
       /\ ctrl = "dispatch" /\ ctrl' = "loop"
       /\ WellFormed(reply)
       /\ reply.v[COMMAND] \in {CMD_START_SENDING_CAMERA_FEED,
                                CMD_STOP_SENDING_CAMERA_FEED}
       /\ UNCHANGED <<feed, main, srv_is_connected, wire["feed"]>>]_vars

\* C30, reached: the flag was set, the feed loop pushed frames on reading
\* it, and a stop_sending_camera_feed has cleared it again.
StreamedThenStoppedSeen ==
  /\ ~send_camera_feed
  /\ wire["feed"] # <<>>
  /\ feed = "loop"
  /\ srv_is_connected
  /\ CtrlSent >= 2

\* The positions of a worker inside its loop.
CtrlRunning == ctrl \in {"loop", "dispatch", "capture"}
FeedRunning == feed \in {"loop", "capture", "send"}

\* A step in which the reply session, or the push session, received or
\* sent.
CtrlSessionUsed == taken'["rep"] # taken["rep"] \/ CtrlSent' # CtrlSent
FeedSessionUsed == wire'["feed"] # wire["feed"]

\* C31: the control session receives and sends in steps of the control loop
\* only and the feed session sends in steps of the feed loop only; neither
\* step touches the other session; and while a loop is running its session
\* holds a socket.
SessionPerLoop ==
  [][/\ CtrlSessionUsed =>
          /\ CtrlRunning /\ is_connected("rep")
          /\ UNCHANGED <<feed, wire["feed"], chan["feed"], socket["push"]>>
     /\ FeedSessionUsed =>
          /\ feed = "send" /\ is_connected("push")
          /\ UNCHANGED <<ctrl, wire["ctrl"], chan["ctrl"], taken["rep"], socket["rep"]>>
     /\ CtrlRunning' => is_connected("rep")'
     /\ FeedRunning' => is_connected("push")']_vars

\* C31, reached: both loops are running and each has used its session.
BothSessionsUsedSeen ==
  /\ srv_is_connected
  /\ ctrl = "loop" /\ feed = "capture"
  /\ CtrlSent >= 1
  /\ Len(wire["feed"]) >= 2

\* C32: a frame is pushed only by the feed loop holding a capture; the loop
\* holds a capture only from its own getStereoFrames() of this turn, entered
\* only on reading is_connected and send_camera_feed both true; a capture is
\* spent by its one push; and send_camera_feed, false at first, is raised
\* only by a start_sending_camera_feed that succeeds.
FrameFromGatedCapture ==
  /\ ~send_camera_feed /\ wire["feed"] = <<>> /\ feed = "new"
  /\ [][/\ FeedSessionUsed =>
             /\ feed = "send" /\ feed' = "loop"
             /\ Len(wire'["feed"]) = Len(wire["feed"]) + 1
        /\ (feed' = "send" /\ feed # "send") => feed = "capture"
        /\ (feed' = "capture" /\ feed # "capture") =>
             feed = "loop" /\ srv_is_connected /\ send_camera_feed
        /\ (feed = "capture" /\ feed' # "capture") => feed' = "send"
        /\ (feed = "send" /\ feed' # "send") =>
             FeedSessionUsed \/ feed' = "crashed"
        /\ (send_camera_feed' /\ ~send_camera_feed) =>
             /\ ctrl = "dispatch" /\ ctrl' = "loop"
             /\ reply.v[COMMAND] = CMD_START_SENDING_CAMERA_FEED]_vars

\* C32, reached: after a first frame was pushed the loop holds the capture
\* of a later turn.
SecondCaptureHeld ==
  /\ feed = "send" /\ send_camera_feed /\ srv_is_connected
  /\ Len(wire["feed"]) = 1

\* The frames the feed loop may still push without reading
\* send_camera_feed again: the one of a turn it is in the body of.
InFlight == IF feed \in {"capture", "send"} THEN 1 ELSE 0

\* The control loop answers a stop_sending_camera_feed request with success.
StopSucceeds ==
  /\ ctrl = "dispatch" /\ ctrl' = "loop"
  /\ reply.ty = "dict" /\ HasFields(reply, {COMMAND})
  /\ reply.v[COMMAND] = CMD_STOP_SENDING_CAMERA_FEED
  /\ send_camera_feed

\* C33: the step that answers stop_sending_camera_feed with success leaves
\* send_camera_feed false, and from then until the flag is raised again the
\* frames pushed plus the frame still in flight never grow: at most the one
\* frame of the turn that had read the flag as true is pushed.
StopBoundsStreaming ==
  [][/\ StopSucceeds => ~send_camera_feed'
     /\ ~send_camera_feed' =>
          Len(wire'["feed"]) + InFlight' <= Len(wire["feed"]) + InFlight]_vars

\* C33, reached: the feed is switched off, its successful answer is on its
\* way to the requester, and the loop holds the capture of the turn that
\* had read the flag as true.
StoppedWithFrameInFlight ==
  /\ ~send_camera_feed /\ srv_is_connected
  /\ feed = "send" /\ ctrl = "loop"
  /\ Len(chan["ctrl"]["back"]) = 1
  /\ chan["ctrl"]["back"][1].val = status_rep(CMD_STOP_SENDING_CAMERA_FEED, TRUE, "")

\* What the server holds of its two sessions and its camera.
ServerHandles ==
  <<socket["rep"], socket["push"], created["rep"], created["push"],
    closes["rep"], closes["push"], attached["rep"], attached["push"], camera>>

\* C34: with the main thread between calls, no step from a server whose
\* is_connected is set starts or stops a session, opens a camera, starts a
\* worker or raises, and no step from a server whose is_connected is clear
\* and stays clear stops a session, deletes the camera, joins or raises:
\* connect on a connected server and disconnect on a disconnected one change
\* nothing.
ConnectIdempotent ==
  [][main = "idle" =>
       /\ srv_is_connected =>
            /\ UNCHANGED ServerHandles
            /\ main_err' \in {main_err, ""}
            /\ ctrl' = "loop" => CtrlRunning
            /\ feed' = "loop" => FeedRunning
       /\ ~srv_is_connected /\ ~srv_is_connected' =>
            /\ UNCHANGED ServerHandles
            /\ main' = "idle"
            /\ main_err' \in {main_err, ""}
            /\ UNCHANGED <<ctrl, feed>> \/ (~CtrlRunning' /\ ~FeedRunning')]_vars

\* C34, reached: connect has been called on a server whose is_connected was
\* left set by a connect that raised, and has returned having done nothing.
SecondConnectSkipped ==
  /\ srv_is_connected /\ main = "idle" /\ main_err = ""
  /\ ctrl = "new" /\ feed = "new"

\* connect has returned on a server that was connected and disconnected
\* before: is_connected is set and both sessions hold their second socket,
\* bound.
Reconnected ==
  /\ main = "idle" /\ srv_is_connected
  /\ created["rep"] = 2 /\ created["push"] = 2
  /\ is_connected("rep") /\ is_connected("push")
  /\ attached["rep"] /\ attached["push"]

\* C35: the connect that follows a connect and a disconnect returns without
\* error with both sessions connected and both worker loops running.
ReconnectRuns ==
  [][~Reconnected /\ Reconnected' =>
       /\ main_err' = ""
       /\ ctrl' = "loop" /\ feed' = "loop"]_vars

\* A step in which connect, called on a server that is not connected, ends
\* by raising before it comes to start the workers.
ConnectFails ==
  /\ main = "idle" /\ ~srv_is_connected
  /\ main_err' \notin {"", "RuntimeError"}

\* C36: a connect that raises part-way leaves is_connected false and has
\* started no worker.
FailedConnectNotConnected ==
  [][ConnectFails =>
       /\ ~srv_is_connected'
       /\ UNCHANGED <<ctrl, feed>>]_vars

\* The first connect of the server has returned, having started the
\* workers, and disconnect has not been called since.
ConnectedOnce ==
  /\ srv_is_connected /\ main = "idle" /\ main_err = ""
  /\ created["rep"] = 1 /\ created["push"] = 1
  /\ ctrl # "new" /\ feed # "new"

\* C37: between the return of connect and the call of disconnect both
\* worker loops are running.
LoopsLiveWhileConnected == ConnectedOnce => CtrlRunning /\ FeedRunning

\* The requests the client's request session has sent, and the responses it
\* has received.
CliSent == Cardinality({i \in DOMAIN wire["ctrl"] : wire["ctrl"][i] = "req"})
CliReceived == Len(taken["req"])

\* The request session sends only in a step that begins a wait and receives
\* only in a step that ends one, one frame each; the client is waiting
\* exactly when it has sent one request more than it has received responses.
Alternates ==
  /\ CliSent' # CliSent =>
       cli = "" /\ cli' # "" /\ CliSent' = CliSent + 1 /\ CliReceived' = CliReceived
  /\ CliReceived' # CliReceived =>
       cli # "" /\ cli' = "" /\ CliReceived' = CliReceived + 1 /\ CliSent' = CliSent
  /\ cli' # "" => CliSent' = CliReceived' + 1 /\ fsm'["req"] = "recv"

\* A command method ends on a client whose request session is connected and
\* in turn to send.
CommandEnds ==
  /\ cli_out' # cli_out
  /\ cli_out'.op \in CommandMethods
  /\ is_connected("req") /\ attached["req"]

\* C38: the client's request session alternates one send with one receive,
\* and every command method of a connected client ends by the receive of
\* the response to the one request it sent.
ClientLockStep ==
  [][/\ Alternates
     /\ CommandEnds => cli = cli_out'.op /\ CliReceived' = CliReceived + 1]_vars

\* C38 for the methods that come to their send_receive.
ClientAlternates ==
  [][/\ Alternates
     /\ (CommandEnds /\ cli_out'.op \in ExchangingMethods) =>
          cli = cli_out'.op /\ CliReceived' = CliReceived + 1]_vars

\* The commands whose handlers have nothing to do with streaming.
NotStreaming ==
  {CMD_START_TRACKING_TENNISBALL, CMD_STOP_TRACKING_TENNISBALL,
   CMD_CONFIGURE_LED, CMD_CALIBRATE_CAMERA, CMD_GET_CAMERA_FEED,
   CMD_TEST_CAMERA_FPS_REQ}

\* A step in which the handler of a request of the handler table ends, by
\* returning or by raising.
HandlerEnds ==
  /\ ctrl \in {"dispatch", "capture"} /\ ctrl' \in {"loop", "crashed"}
  /\ reply.ty = "dict" /\ HasFields(reply, {COMMAND})
  /\ reply.v[COMMAND] \in message_handler

\* The step has answered with a status that says unsuccessful.
Rejecting ==
  /\ Answering
  /\ Answer.ty = "dict" /\ HasFields(Answer, {"successful"})
  /\ Answer.v.successful = FALSE

\* C39: no handler writes is_connected, and a handler that raises, that
\* answers unsuccessful or that serves a command unrelated to streaming
\* leaves send_camera_feed as it was.
HandlersKeepState ==
  [][HandlerEnds =>
       /\ srv_is_connected' = srv_is_connected
       /\ (ctrl' = "crashed" \/ Rejecting \/ reply.v[COMMAND] \in NotStreaming) =>
            send_camera_feed' = send_camera_feed]_vars

\* C39, reached: a stop_sending_camera_feed has been rejected, the feed
\* being off, and the feed is still off.
StopRejectedSeen ==
  /\ ~send_camera_feed /\ srv_is_connected /\ ctrl = "loop"
  /\ Len(chan["ctrl"]["back"]) = 1
  /\ chan["ctrl"]["back"][1].val =
       status_rep(CMD_STOP_SENDING_CAMERA_FEED, FALSE,
                  "Camera Feed is not currently running")

\* C40: every request of the handler table that the control loop
\* dispatches is answered: its handler returns a response and the loop
\* sends it.
EveryDispatchSends ==
  [][(HandlerEnds /\ WellFormed(reply)) =>
       ctrl' = "loop" /\ CtrlSent' = CtrlSent + 1]_vars

\* The part of C40 about None: what a handler returns is sent.
ReturnedIsSent ==
  [][(HandlerEnds /\ ctrl' = "loop") => CtrlSent' = CtrlSent + 1]_vars

====
